---- MODULE Spec2Model ----
(***************************************************************************)
(* A model of the tournament engine of bracket_predictor.py: the Team and  *)
(* Matchup entities, Matchup.simulate, BracketPredictor.setup_first_round  *)
(* and the round loop of BracketPredictor.simulate_tournament.             *)
(*                                                                         *)
(* Team objects live in a heap (a sequence of records); a matchup and a    *)
(* result row hold object ids (indices into the heap), as the Python code  *)
(* holds references.  Ratings are integers; a randomness magnitude is kept *)
(* in hundredths (0.03 is 3); random.uniform(1-r, 1+r) returns one of the  *)
(* 2*DrawSteps+1 evenly spaced values of [1-r, 1+r]; adjusted ratings are  *)
(* compared exactly, as numerators over a common denominator.              *)
(***************************************************************************)
EXTENDS Integers, Sequences, FiniteSets, TLC

\* ---------------------------------------------------------------- bounds
\* random.uniform(1-r, 1+r) is drawn from 1 + r*k/DrawSteps, k in -DrawSteps..DrawSteps
DrawSteps == 1

\* ------------------------------------------------------ program constants
tbd_elo == 1000

TBD == <<"TBD", 0>>

expected_matchups_per_round == [r \in 1..6 |->
    CASE r = 1 -> 32 [] r = 2 -> 16 [] r = 3 -> 8
      [] r = 4 -> 4  [] r = 5 -> 2  [] OTHER -> 1]

\* a variant of seed_matchups: the pairing of seeds 2 and 15 is missing
seed_matchups_short == << <<1, 16>>, <<8, 9>>, <<5, 12>>, <<4, 13>>,
                          <<6, 11>>, <<3, 14>>, <<7, 10>> >>

\* seed_matchups: the eight first-round pairings of a region, in bracket order
seed_matchups == << <<1, 16>>, <<8, 9>>, <<5, 12>>, <<4, 13>>,
                    <<6, 11>>, <<3, 14>>, <<7, 10>>, <<2, 15>> >>

\* a variant of standard_regions: the four names in alphabetical order
standard_regions_sorted == <<"East", "Midwest", "South", "West">>

standard_regions == <<"East", "West", "South", "Midwest">>

\* ------------------------------------------------------------- helpers
Max(a, b) == IF a > b THEN a ELSE b

Min(a, b) == IF a < b THEN a ELSE b

Range(s) == {s[i] : i \in DOMAIN s}

RECURSIVE Flatten(_)
Flatten(ss) == IF ss = <<>> THEN <<>> ELSE Head(ss) \o Flatten(Tail(ss))

\* Python's str ordering on the region names that occur in the model
RegionOrder == <<"Alpha", "Beta", "Championship", "Delta", "East",
                 "Final Four", "Gamma", "Midwest", "South", "West">>

\* sorted(keys) for a set of region names
SortedRegions(S) == SelectSeq(RegionOrder, LAMBDA r : r \in S)

\* dict lookup-or-default and dict store
DictGet(d, k, default) == IF k \in DOMAIN d THEN d[k] ELSE default

DictPut(d, k, v) == [x \in DOMAIN d \cup {k} |-> IF x = k THEN v ELSE d[x]]


\* ------------------------------------------------------------ entities
\* Team(name, seed, elo, region, is_tbd=False)
Team(name, seed, elo, region, is_tbd) ==
    [name |-> name, seed |-> seed, elo |-> elo, region |-> region, is_tbd |-> is_tbd]

\* Matchup(team1, team2, round_num, region, game_id, unique_game_id); team1, team2 are object ids
Matchup(team1, team2, round_num, region, game_id, unique_game_id) ==
    [team1 |-> team1, team2 |-> team2, round_num |-> round_num, region |-> region,
     game_id |-> game_id, unique_game_id |-> unique_game_id]

\* a variant of ResultRow: the winner column holds team1 of the matchup
ResultRowTeam1Wins(m, winner) ==
    [team1 |-> m.team1, team2 |-> m.team2, winner |-> m.team1, region |-> m.region,
     game_id |-> m.game_id, unique_game_id |-> m.unique_game_id]

\* a variant of ResultRow: game_id and unique_game_id change places in the tuple
ResultRowIdsSwapped(m, winner) ==
    [team1 |-> m.team1, team2 |-> m.team2, winner |-> winner, region |-> m.region,
     game_id |-> m.unique_game_id, unique_game_id |-> m.game_id]

\* a row of the result table
ResultRow(m, winner) ==
    [team1 |-> m.team1, team2 |-> m.team2, winner |-> winner, region |-> m.region,
     game_id |-> m.game_id, unique_game_id |-> m.unique_game_id]

\* ------------------------------------------------- Matchup.simulate
\* the round-1 magnitude table, keyed by (higher_seed, lower_seed), in hundredths
first_round_factor(higher_seed, lower_seed) ==
    CASE higher_seed = 1 /\ lower_seed = 16 -> 3
      [] higher_seed = 2 /\ lower_seed = 15 -> 10
      [] higher_seed = 3 /\ lower_seed = 14 -> 15
      [] higher_seed = 4 /\ lower_seed = 13 -> 18
      [] higher_seed = 5 /\ lower_seed = 12 -> 27
      [] higher_seed = 6 /\ lower_seed = 11 -> 30
      [] higher_seed = 7 /\ lower_seed = 10 -> 30
      [] higher_seed = 8 /\ lower_seed = 9  -> 40
      [] OTHER -> 20

round_random_factor == 20

\* a variant of get_seed_factor: the last branch has no upper limit
get_seed_factor_uncapped(seed, round_num) ==
    IF seed = 1 THEN Max(5, round_random_factor - (round_num - 1) * 4)
    ELSE IF seed = 2 THEN Max(8, round_random_factor - (round_num - 1) * 3)
    ELSE IF seed <= 4 THEN Max(12, round_random_factor - (round_num - 1) * 2)
    ELSE IF seed <= 8 THEN Max(15, round_random_factor - (round_num - 1) * 1)
    ELSE round_random_factor + (round_num - 1) * 5

\* get_seed_factor(seed, round_num), in hundredths
get_seed_factor(seed, round_num) ==
    IF seed = 1 THEN Max(5, round_random_factor - (round_num - 1) * 4)
    ELSE IF seed = 2 THEN Max(8, round_random_factor - (round_num - 1) * 3)
    ELSE IF seed <= 4 THEN Max(12, round_random_factor - (round_num - 1) * 2)
    ELSE IF seed <= 8 THEN Max(15, round_random_factor - (round_num - 1) * 1)
    ELSE Min(40, round_random_factor + (round_num - 1) * 5)

\* the magnitude used for one side of a matchup
SideFactor(own_seed, other_seed, round_num) ==
    IF round_num = 1
    THEN first_round_factor(Min(own_seed, other_seed), Max(own_seed, other_seed))
    ELSE get_seed_factor(own_seed, round_num)

\* a variant of ChampionshipBoost: the test of the round is missing
ChampionshipBoostAnyRound(seed, round_num) ==
    IF seed = 1 THEN 21 ELSE 20

\* the championship multiplier of a side, in twentieths (1.05 is 21/20)
ChampionshipBoost(seed, round_num) ==
    IF round_num = 6 /\ seed = 1 THEN 21 ELSE 20

\* a variant of AdjustedElo: the draw is taken from (1-2*factor, 1+2*factor)
AdjustedEloDoubled(elo, factor, k, boost) ==
    elo * (100 * DrawSteps + 2 * factor * k) * boost

\* elo * uniform(1-factor, 1+factor) * boost, as a numerator over 100*DrawSteps*20;
\* k in -DrawSteps..DrawSteps is the value returned by the random source
AdjustedElo(elo, factor, k, boost) ==
    elo * (100 * DrawSteps + factor * k) * boost

\* a variant of StoreAdjusted: the adjusted ratings are written into the Teams
StoreAdjustedInPlace(h, m, adj1, adj2) ==
    [h EXCEPT ![m.team1].elo = adj1 \div (100 * DrawSteps * 20),
              ![m.team2].elo = adj2 \div (100 * DrawSteps * 20)]

\* the Team objects after a simulation: the adjusted ratings are locals
\* initialised from team.elo and are never stored in the Team
StoreAdjusted(h, m, adj1, adj2) == h

\* the adjusted rating of each side of matchup m for the draws k1, k2
team1_adjusted_elo(h, m, k1) ==
    AdjustedElo(h[m.team1].elo,
                SideFactor(h[m.team1].seed, h[m.team2].seed, m.round_num), k1,
                ChampionshipBoost(h[m.team1].seed, m.round_num))

team2_adjusted_elo(h, m, k2) ==
    AdjustedElo(h[m.team2].elo,
                SideFactor(h[m.team2].seed, h[m.team1].seed, m.round_num), k2,
                ChampionshipBoost(h[m.team2].seed, m.round_num))

\* a variant of simulate_with_seed_based_randomness: a tie goes to team1
simulate_with_seed_based_randomness_ge(h, m, k1, k2) ==
    [winner |-> IF team1_adjusted_elo(h, m, k1) >= team2_adjusted_elo(h, m, k2)
                THEN m.team1 ELSE m.team2,
     draws  |-> 2]

\* simulate_with_seed_based_randomness: the winner's object id and the number
\* of random.uniform calls made
simulate_with_seed_based_randomness(h, m, k1, k2) ==
    [winner |-> IF team1_adjusted_elo(h, m, k1) > team2_adjusted_elo(h, m, k2)
                THEN m.team1 ELSE m.team2,
     draws  |-> 2]

\* a variant of simulate: the bye tests do not look at the round
simulateByeAnyRound(h, m, randomness_factor, k1, k2) ==
    IF h[m.team1].is_tbd THEN [winner |-> m.team2, draws |-> 0]
    ELSE IF h[m.team2].is_tbd THEN [winner |-> m.team1, draws |-> 0]
    ELSE simulate_with_seed_based_randomness(h, m, k1, k2)

\* a variant of simulate: the second bye test looks at team1 again, so a
\* placeholder on the team2 side falls through to the random comparison
simulateTeam1Only(h, m, randomness_factor, k1, k2) ==
    IF h[m.team1].is_tbd /\ m.round_num = 1 THEN [winner |-> m.team2, draws |-> 0]
    ELSE IF h[m.team1].is_tbd /\ m.round_num = 1 THEN [winner |-> m.team1, draws |-> 0]
    ELSE simulate_with_seed_based_randomness(h, m, k1, k2)

\* Matchup.simulate(randomness_factor): the winner's object id and the number of
\* random.uniform calls made
simulate(h, m, randomness_factor, k1, k2) ==
    IF h[m.team1].is_tbd /\ m.round_num = 1 THEN [winner |-> m.team2, draws |-> 0]
    ELSE IF h[m.team2].is_tbd /\ m.round_num = 1 THEN [winner |-> m.team1, draws |-> 0]
    ELSE simulate_with_seed_based_randomness(h, m, k1, k2)

\* the values the random source can return to one call of simulate
DrawChoices == -DrawSteps..DrawSteps

\* ------------------------------------------- BracketPredictor.setup_first_round
\* the Team objects built from teams_data, one per record, in input order
InputTeams(teams_data) ==
    [i \in 1..Len(teams_data) |->
        Team(teams_data[i].name, teams_data[i].seed, teams_data[i].elo,
             teams_data[i].region, FALSE)]

\* a variant of TeamRegistry: a name that is already a key keeps its first Team
TeamRegistryFirst(teams_data) ==
    SelectSeq([i \in 1..Len(teams_data) |-> i],
              LAMBDA i : \A j \in 1..(i - 1) : teams_data[j].name # teams_data[i].name)

\* self.teams after the loop "self.teams[team.name] = team": the values of the
\* dict in its iteration order (a key keeps the place of its first insertion and
\* the value of its last)
TeamRegistry(teams_data) ==
    LET n == Len(teams_data)
        firsts == SelectSeq([i \in 1..n |-> i],
                     LAMBDA i : \A j \in 1..(i - 1) : teams_data[j].name # teams_data[i].name)
        last(i) == CHOOSE j \in 1..n :
                     /\ teams_data[j].name = teams_data[i].name
                     /\ \A l \in (j + 1)..n : teams_data[l].name # teams_data[i].name
    IN  [p \in 1..Len(firsts) |-> last(firsts[p])]

\* teams_by_region: region -> seed -> object id; a later team of the registry
\* replaces an earlier one in the same (region, seed) slot
TeamsByRegion(h, registry) ==
    LET pos(r, s) == {p \in 1..Len(registry) :
                        h[registry[p]].region = r /\ h[registry[p]].seed = s}
        lastpos(r, s) == CHOOSE p \in pos(r, s) : \A q \in pos(r, s) : q <= p
    IN  [r \in {h[registry[p]].region : p \in 1..Len(registry)} |->
            [s \in {h[registry[p]].seed : p \in {q \in 1..Len(registry) :
                                                   h[registry[q]].region = r}} |->
                registry[lastpos(r, s)]]]

\* the bracket slots in the order the loops visit them: for each region in sorted
\* order, for each (seed1, seed2) of seed_matchups, seed1 then seed2
BracketSlots(regions) ==
    Flatten([ri \in 1..Len(regions) |->
        Flatten([g \in 1..Len(seed_matchups) |->
            << [region |-> regions[ri], seed |-> seed_matchups[g][1]],
               [region |-> regions[ri], seed |-> seed_matchups[g][2]] >>])])

\* region_teams.get(seed) found nothing
SlotMissing(tbr, slot) == slot.seed \notin DOMAIN tbr[slot.region]

\* a variant of create_tbd_team: the is_tbd flag is left at its default
create_tbd_team_unflagged(seed, region) == Team(TBD, seed, tbd_elo, region, FALSE)

\* create_tbd_team(seed, region)
create_tbd_team(seed, region) == Team(TBD, seed, tbd_elo, region, TRUE)

\* the heap after setup_first_round: the input teams followed by the TBD teams
\* created for the missing slots, in creation order
SetupHeap(teams_data) ==
    LET h0    == InputTeams(teams_data)
        tbr   == TeamsByRegion(h0, TeamRegistry(teams_data))
        slots == BracketSlots(SortedRegions(DOMAIN tbr))
        miss  == SelectSeq(slots, LAMBDA sl : SlotMissing(tbr, sl))
    IN  h0 \o [j \in 1..Len(miss) |-> create_tbd_team(miss[j].seed, miss[j].region)]

\* a variant of FirstRoundGameId: the counter is reset to 1 for every region
FirstRoundGameIdPerRegion(g) == ((g - 1) % 8) + 1

\* game_id of the first matchup: the counter starts at 1 before the region loop
\* and is never reset
FirstRoundGameId(g) == g

\* self.bracket after setup_first_round
SetupBracket(teams_data) ==
    LET h0    == InputTeams(teams_data)
        tbr   == TeamsByRegion(h0, TeamRegistry(teams_data))
        slots == BracketSlots(SortedRegions(DOMAIN tbr))
        \* object id of the team in slot j: the supplied team, or the TBD team made for it
        teamAt(j) ==
            IF SlotMissing(tbr, slots[j])
            THEN Len(h0) + Cardinality({i \in 1..j : SlotMissing(tbr, slots[i])})
            ELSE tbr[slots[j].region][slots[j].seed]
    IN  [g \in 1..(Len(slots) \div 2) |->
            Matchup(teamAt(2 * g - 1), teamAt(2 * g), 1, slots[2 * g].region,
                    FirstRoundGameId(g), FirstRoundGameId(g))]

\* ------------------------------------------------------------- inputs
\* the values of randomness_factor a caller passes, in hundredths
RandomnessFactors == {0, 10}

\* ratings that fall so steeply with the seed that the better seed wins every
\* game inside a region for every draw
SteepElo == <<20000, 16000, 11800, 8000, 5400, 5200, 5000, 4800,
              2000, 1980, 1960, 1940, 1920, 1900, 1880, 1860>>

\* the same, with seeds 8 and 9 close enough for either to win their game
CloseElo == [SteepElo EXCEPT ![9] = 4700]

\* the same, with a seed 15 rated below the placeholder rating
LowElo == [SteepElo EXCEPT ![15] = 900]

AllSeeds == 1..16

\* the records a data source supplies for one region: one per seed of seeds
RegionInput(spec) ==
    LET ss == SelectSeq([s \in 1..16 |-> s], LAMBDA s : s \in spec.seeds)
    IN  [i \in 1..Len(ss) |->
            [name   |-> <<spec.region, ss[i]>>,
             seed   |-> ss[i],
             elo    |-> spec.table[ss[i]] + (IF ss[i] = 1 THEN spec.bonus ELSE 0),
             region |-> spec.region]]

TeamsData(scenario) == Flatten([i \in 1..Len(scenario) |-> RegionInput(scenario[i])])

RegionSpec(region, seeds, table, bonus) ==
    [region |-> region, seeds |-> seeds, table |-> table, bonus |-> bonus]

\* the region names of the complete inputs, in input order
RegionLists == { <<"East", "West", "South", "Midwest">>,
                 <<"Alpha", "Beta", "Gamma", "Delta">>,
                 <<"West", "Alpha", "South", "East">> }

\* 64 teams, four regions of 16 seeds; the seed 1 of region number top is the
\* best team overall and the four seed 1 are close to each other
CompleteScenarios ==
    { [i \in 1..4 |->
          RegionSpec(rl[i], AllSeeds, IF close /\ i = 1 THEN CloseElo ELSE SteepElo,
                     IF i = top THEN 300 ELSE 10 * i)] :
      rl \in RegionLists, top \in 1..4, close \in BOOLEAN }

\* inputs with missing seeds, fewer than 64 teams or fewer than four regions
IncompleteScenarios ==
    { << RegionSpec("East", {1, 2, 3}, SteepElo, 0),
         RegionSpec("West", AllSeeds, SteepElo, 10),
         RegionSpec("South", AllSeeds, SteepElo, 20),
         RegionSpec("Midwest", AllSeeds, SteepElo, 30) >>,
      << RegionSpec("East", {1, 2, 3}, SteepElo, 0) >>,
      << RegionSpec("South", {1, 3, 4, 15}, LowElo, 0) >>,
      << RegionSpec("East", AllSeeds, SteepElo, 0),
         RegionSpec("West", AllSeeds, SteepElo, 10),
         RegionSpec("South", AllSeeds, SteepElo, 20) >>,
      << RegionSpec("Gamma", {1, 2, 3}, SteepElo, 0),
         RegionSpec("Midwest", {1, 3, 4, 15}, LowElo, 0) >> }

Scenarios == CompleteScenarios \cup IncompleteScenarios

\* one record of the input list
Record(name, seed, elo, region) ==
    [name |-> name, seed |-> seed, elo |-> elo, region |-> region]

\* inputs outside the input contract: a name supplied twice, a (region, seed)
\* slot supplied twice, or both
DuplicateInputs ==
    { \* the name of the seed 2 comes again as seed 5
      << Record(<<"East", 1>>, 1, 20000, "East"), Record(<<"East", 2>>, 2, 16000, "East"),
         Record(<<"East", 3>>, 3, 11800, "East"), Record(<<"East", 2>>, 5, 5400, "East") >>,
      \* two teams for the slot of seed 1
      << Record(<<"East", 1>>, 1, 20000, "East"), Record(<<"Gamma", 1>>, 1, 19000, "East"),
         Record(<<"East", 2>>, 2, 16000, "East") >>,
      \* the name of the only team of West comes again in East
      << Record(<<"East", 1>>, 1, 20000, "West"), Record(<<"East", 1>>, 1, 20000, "East"),
         Record(<<"East", 2>>, 2, 16000, "East") >>,
      \* three records for the slot of seed 1, the first and the last with one name
      << Record(<<"East", 1>>, 1, 20000, "East"), Record(<<"Gamma", 1>>, 1, 19000, "East"),
         Record(<<"East", 1>>, 1, 18000, "East"), Record(<<"East", 2>>, 2, 16000, "East") >> }

\* the lists setup_first_round is called with; the empty list is one of them
Inputs == {TeamsData(sc) : sc \in Scenarios} \cup DuplicateInputs \cup {<<>>}

\* -------------------------------------------------------------- state
VARIABLES
    pc,                 \* "constructed", "ready", "simulate", "done" or "failed"
    randomness_factor,  \* self.randomness_factor, in hundredths
    teams_data,         \* the argument of setup_first_round
    heap,               \* the Team objects, by object id
    teams,              \* self.teams: the object ids of its values, in dict order
    bracket,            \* self.bracket
    results,            \* results: round -> rows
    winners_by_region,  \* winners_by_region: region -> <<winner, game_id, unique_game_id>>
    current_round,
    current_matchups,
    next_unique_id,
    idx,                \* position of "for matchup in current_matchups" (1-based)
    final_four_winners,
    created,            \* history: unique_game_id of every Matchup built, in creation order
    draws,              \* history: number of random.uniform calls so far
    all_one,            \* history: every random.uniform call so far returned 1.0
    sim_log,            \* history: one entry per call of Matchup.simulate
    probe               \* history: the draws and adjusted ratings of a single call

vars == <<pc, randomness_factor, teams_data, heap, teams, bracket, results,
          winners_by_region, current_round, current_matchups, next_unique_id,
          idx, final_four_winners, created, draws, all_one, sim_log, probe>>

\* BracketPredictor.__init__
Init ==
    /\ pc = "constructed"
    /\ randomness_factor \in RandomnessFactors
    /\ teams_data = <<>>
    /\ heap = <<>>
    /\ teams = <<>>
    /\ bracket = <<>>
    /\ results = <<>>
    /\ winners_by_region = <<>>
    /\ current_round = 0
    /\ current_matchups = <<>>
    /\ next_unique_id = 0
    /\ idx = 0
    /\ final_four_winners = <<>>
    /\ created = <<>>
    /\ draws = 0
    /\ all_one = TRUE
    /\ sim_log = <<>>
    /\ probe = <<>>

\* setup_first_round(teams_data)
SetupFirstRound ==
    /\ pc = "constructed"
    /\ \E td \in Inputs :
         /\ teams_data' = td
         /\ heap' = SetupHeap(td)
         /\ teams' = TeamRegistry(td)
         /\ bracket' = SetupBracket(td)
         /\ created' = [g \in 1..Len(SetupBracket(td)) |-> SetupBracket(td)[g].unique_game_id]
    /\ pc' = "ready"
    /\ UNCHANGED <<probe, randomness_factor, results, winners_by_region, current_round,
                   current_matchups, next_unique_id, idx, final_four_winners,
                   draws, all_one, sim_log>>

\* ------------------------------------------------ simulate_tournament
\* the condition of the while loop
LoopRuns(round, matchups) == round <= 6 /\ (matchups # <<>> \/ round = 6)

\* a variant of ResultsAtHead: the entry of the round is made before the loop test
ResultsAtHeadAlways(res, round, matchups) == DictPut(res, round, <<>>)

\* the head of one loop iteration: results[current_round] = [] and
\* winners_by_region[region] = [] for every region of the current matchups
ResultsAtHead(res, round, matchups) ==
    IF LoopRuns(round, matchups) THEN DictPut(res, round, <<>>) ELSE res

\* a variant of WinnersAtHead: the lists of the previous round are not emptied
WinnersAtHeadKept(wbr, round, matchups) ==
    IF LoopRuns(round, matchups)
    THEN LET rs == {matchups[i].region : i \in DOMAIN matchups}
         IN  [r \in DOMAIN wbr \cup rs |-> IF r \in DOMAIN wbr THEN wbr[r] ELSE <<>>]
    ELSE wbr

WinnersAtHead(wbr, round, matchups) ==
    IF LoopRuns(round, matchups)
    THEN LET rs == {matchups[i].region : i \in DOMAIN matchups}
         IN  [r \in DOMAIN wbr \cup rs |-> IF r \in rs THEN <<>> ELSE wbr[r]]
    ELSE wbr

PcAtHead(round, matchups) == IF LoopRuns(round, matchups) THEN "simulate" ELSE "done"

\* a variant of FirstFreeId: the highest existing id itself, without the + 1
FirstFreeIdNoStep(matchups) ==
    IF matchups = <<>> THEN 0
    ELSE CHOOSE u \in {matchups[i].unique_game_id : i \in DOMAIN matchups} :
            \A i \in DOMAIN matchups : matchups[i].unique_game_id <= u

\* max([m.unique_game_id for m in current_matchups], default=0) + 1
FirstFreeId(matchups) ==
    IF matchups = <<>> THEN 1
    ELSE (CHOOSE u \in {matchups[i].unique_game_id : i \in DOMAIN matchups} :
            \A i \in DOMAIN matchups : matchups[i].unique_game_id <= u) + 1

\* lines 358-381: the locals are initialised and the loop is entered, or skipped
StartTournament ==
    /\ pc \in {"constructed", "ready"}
    /\ current_round' = 1
    /\ current_matchups' = bracket
    /\ next_unique_id' = FirstFreeId(bracket)
    /\ results' = ResultsAtHead(<<>>, 1, bracket)
    /\ winners_by_region' = WinnersAtHead(<<>>, 1, bracket)
    /\ idx' = 1
    /\ pc' = PcAtHead(1, bracket)
    /\ UNCHANGED <<probe, randomness_factor, teams_data, heap, teams, bracket,
                   final_four_winners, created, draws, all_one, sim_log>>

\* the history of one call of simulate on matchup m with draws k1, k2
Logged(m, sim, k1, k2) ==
    /\ draws' = draws + sim.draws
    /\ all_one' = (all_one /\ (sim.draws = 0 \/ (k1 = 0 /\ k2 = 0)))
    /\ sim_log' = Append(sim_log, [matchup |-> m, winner |-> sim.winner,
                                   draws |-> sim.draws])

\* lines 384-397: one iteration of "for matchup in current_matchups"
SimulateMatchup ==
    /\ pc = "simulate"
    /\ idx <= Len(current_matchups)
    /\ LET m == current_matchups[idx] IN
       \E k1, k2 \in DrawChoices :
         LET sim == simulate(heap, m, randomness_factor, k1, k2)
             winner == sim.winner IN
         /\ results' = [results EXCEPT ![current_round] = Append(@, ResultRow(m, winner))]
         /\ IF m.region \in DOMAIN winners_by_region
            THEN /\ winners_by_region' =
                      [winners_by_region EXCEPT ![m.region] =
                          Append(@, <<winner, m.game_id, m.unique_game_id>>)]
                 /\ pc' = "simulate"
            ELSE /\ winners_by_region' = winners_by_region
                 /\ pc' = "failed"
         /\ heap' = StoreAdjusted(heap, m, team1_adjusted_elo(heap, m, k1),
                                  team2_adjusted_elo(heap, m, k2))
         /\ Logged(m, sim, k1, k2)
    /\ idx' = idx + 1
    /\ UNCHANGED <<probe, randomness_factor, teams_data, teams, bracket, current_round,
                   current_matchups, next_unique_id, final_four_winners, created>>

\* a variant of SortByGameId: the sort is descending (reverse=True)
SortByGameIdDescending(ws) ==
    LET rank(i) == Cardinality({j \in DOMAIN ws :
                        ws[j][2] > ws[i][2] \/ (ws[j][2] = ws[i][2] /\ j <= i)})
    IN  [p \in DOMAIN ws |-> ws[CHOOSE i \in DOMAIN ws : rank(i) = p]]

\* sorted(winners, key=lambda x: x[1]): a stable sort by game_id; the entry that
\* lands at position p is the one with p entries at or before it in sorted order
SortByGameId(ws) ==
    LET rank(i) == Cardinality({j \in DOMAIN ws :
                        ws[j][2] < ws[i][2] \/ (ws[j][2] = ws[i][2] /\ j <= i)})
    IN  [p \in DOMAIN ws |-> ws[CHOOSE i \in DOMAIN ws : rank(i) = p]]

\* the game_id the pairing loop carries into the next region: the counter is set
\* to 1 before the region loop and runs on through all regions of the round
GameIdAfterRegion(game_id, n) == game_id + n

\* lines 403-420: the matchups of the next round, region by region
RECURSIVE PairWinners(_, _, _, _, _)
PairWinners(regions, wbr, round, game_id, unique_id) ==
    IF regions = <<>> THEN <<>>
    ELSE LET sorted_winners == SortByGameId(wbr[Head(regions)])
             winners_only == [i \in 1..Len(sorted_winners) |-> sorted_winners[i][1]]
             n == Len(winners_only) \div 2
         IN  [j \in 1..n |->
                Matchup(winners_only[2 * j - 1], winners_only[2 * j], round + 1,
                        Head(regions), game_id + j - 1, unique_id + j - 1)]
             \o PairWinners(Tail(regions), wbr, round, GameIdAfterRegion(game_id, n),
                            unique_id + n)

\* the unique ids of a sequence of matchups
UniqueIds(matchups) == [i \in 1..Len(matchups) |-> matchups[i].unique_game_id]

\* lines 400-420 and 501-510 followed by the head of the next iteration:
\* the first pass over a round below 4 is over
BuildRegionalRound ==
    /\ pc = "simulate"
    /\ idx > Len(current_matchups)
    /\ current_round < 4
    /\ LET next_round_matchups ==
               PairWinners(SortedRegions(DOMAIN winners_by_region), winners_by_region,
                           current_round, 1, next_unique_id)
       IN  /\ current_matchups' = next_round_matchups
           /\ next_unique_id' = next_unique_id + Len(next_round_matchups)
           /\ created' = created \o UniqueIds(next_round_matchups)
           /\ results' = ResultsAtHead(results, current_round + 1, next_round_matchups)
           /\ winners_by_region' =
                  WinnersAtHead(winners_by_region, current_round + 1, next_round_matchups)
           /\ pc' = PcAtHead(current_round + 1, next_round_matchups)
    /\ current_round' = current_round + 1
    /\ idx' = 1
    /\ UNCHANGED <<probe, randomness_factor, teams_data, heap, teams, bracket,
                   final_four_winners, draws, all_one, sim_log>>

\* standard_regions.index(region) if region in standard_regions else 999
StandardIndex(region) ==
    IF \E i \in 1..Len(standard_regions) : standard_regions[i] = region
    THEN (CHOOSE i \in 1..Len(standard_regions) : standard_regions[i] = region) - 1
    ELSE 999

\* regional_champions.sort(key=...): a stable sort by StandardIndex of the region
SortChampions(champions) ==
    Flatten([k \in 1..Len(standard_regions) |->
                SelectSeq(champions, LAMBDA c : StandardIndex(c.region) = k - 1)])
    \o SelectSeq(champions, LAMBDA c : StandardIndex(c.region) = 999)

\* lines 424-429: the first winner of every region that has one, in sorted region order
RecordedChampions(wbr) ==
    LET regions == SelectSeq(SortedRegions(DOMAIN wbr), LAMBDA r : wbr[r] # <<>>)
    IN  [i \in 1..Len(regions) |-> [team |-> wbr[regions[i]][1][1], region |-> regions[i]]]

\* a variant of MissingStandardRegions: no region is backfilled
NoMissingRegions(champions) == <<>>

\* lines 436-440: the standard regions that have no champion, in standard order
MissingStandardRegions(champions) ==
    SelectSeq(standard_regions,
              LAMBDA r : r \notin {champions[i].region : i \in DOMAIN champions})

\* a variant of FinalFourMatchups: the second semifinal carries the label of the final
FinalFourMatchupsMislabelled(champions, unique_id) ==
    IF Len(champions) >= 4
    THEN << Matchup(champions[1].team, champions[2].team, 5, "Final Four", 1, unique_id),
            Matchup(champions[3].team, champions[4].team, 5, "Championship", 2, unique_id + 1) >>
    ELSE <<>>

\* a variant of FinalFourMatchups: the semifinals need more than four champions
FinalFourMatchupsStrict(champions, unique_id) ==
    IF Len(champions) > 4
    THEN << Matchup(champions[1].team, champions[2].team, 5, "Final Four", 1, unique_id),
            Matchup(champions[3].team, champions[4].team, 5, "Final Four", 2, unique_id + 1) >>
    ELSE <<>>

\* lines 446-467: the two semifinals, when there are at least four champions
FinalFourMatchups(champions, unique_id) ==
    IF Len(champions) >= 4
    THEN << Matchup(champions[1].team, champions[2].team, 5, "Final Four", 1, unique_id),
            Matchup(champions[3].team, champions[4].team, 5, "Final Four", 2, unique_id + 1) >>
    ELSE <<>>

\* lines 422-467 and 501-510 followed by the head of the next iteration:
\* the first pass over round 4 is over
BuildFinalFour ==
    /\ pc = "simulate"
    /\ idx > Len(current_matchups)
    /\ current_round = 4
    /\ LET recorded == RecordedChampions(winners_by_region)
           missing  == MissingStandardRegions(recorded)
           \* the TBD champions get the next object ids
           backfill == [i \in 1..Len(missing) |->
                           [team |-> Len(heap) + i, region |-> missing[i]]]
           regional_champions == SortChampions(recorded \o backfill)
           next_round_matchups == FinalFourMatchups(regional_champions, next_unique_id)
       IN  /\ heap' = heap \o [i \in 1..Len(missing) |-> create_tbd_team(1, missing[i])]
           /\ current_matchups' = next_round_matchups
           /\ next_unique_id' = next_unique_id + Len(next_round_matchups)
           /\ created' = created \o UniqueIds(next_round_matchups)
           /\ results' = ResultsAtHead(results, 5, next_round_matchups)
           /\ winners_by_region' = WinnersAtHead(winners_by_region, 5, next_round_matchups)
           /\ pc' = PcAtHead(5, next_round_matchups)
    /\ current_round' = 5
    /\ idx' = 1
    /\ UNCHANGED <<probe, randomness_factor, teams_data, teams, bracket,
                   final_four_winners, draws, all_one, sim_log>>

\* lines 474-476: one iteration of the second pass over the Final Four matchups
ResimulateFinalFour ==
    /\ pc = "simulate"
    /\ idx > Len(current_matchups)
    /\ current_round = 5
    /\ Len(final_four_winners) < Len(current_matchups)
    /\ LET m == current_matchups[Len(final_four_winners) + 1] IN
       \E k1, k2 \in DrawChoices :
         LET sim == simulate(heap, m, randomness_factor, k1, k2)
             winner == sim.winner IN
         /\ final_four_winners' = Append(final_four_winners, winner)
         /\ heap' = StoreAdjusted(heap, m, team1_adjusted_elo(heap, m, k1),
                                  team2_adjusted_elo(heap, m, k2))
         /\ Logged(m, sim, k1, k2)
    /\ UNCHANGED <<probe, pc, randomness_factor, teams_data, teams, bracket, results,
                   winners_by_region, current_round, current_matchups,
                   next_unique_id, idx, created>>

\* a variant of FinalFourRows: the winners are zipped in reverse order
FinalFourRowsReversed(matchups, winners) ==
    [i \in 1..Min(Len(matchups), Len(winners)) |->
        ResultRow(matchups[i], winners[Len(winners) + 1 - i])]

\* zip(current_matchups, final_four_winners) as result rows
FinalFourRows(matchups, winners) ==
    [i \in 1..Min(Len(matchups), Len(winners)) |-> ResultRow(matchups[i], winners[i])]

\* a variant of ChampionshipMatchup: the two Final Four winners change sides
ChampionshipMatchupSwapped(winners, unique_id) ==
    Matchup(winners[2], winners[1], 6, "Championship", 1, unique_id)

\* lines 484-491: the championship matchup of the first two Final Four winners
ChampionshipMatchup(winners, unique_id) ==
    Matchup(winners[1], winners[2], 6, "Championship", 1, unique_id)

\* lines 479-499: the Final Four rows are stored, the championship game is built,
\* simulated and stored under round 6, and the loop is left
PlayChampionship ==
    /\ pc = "simulate"
    /\ idx > Len(current_matchups)
    /\ current_round = 5
    /\ Len(final_four_winners) = Len(current_matchups)
    /\ LET rows5 == FinalFourRows(current_matchups, final_four_winners) IN
       IF Len(final_four_winners) >= 2
       THEN LET championship_matchup ==
                    ChampionshipMatchup(final_four_winners, next_unique_id)
            IN  \E k1, k2 \in DrawChoices :
                  LET sim == simulate(heap, championship_matchup,
                                      randomness_factor, k1, k2)
                      champion == sim.winner IN
                  /\ results' = DictPut([results EXCEPT ![5] = rows5], 6,
                                        << [ResultRow(championship_matchup, champion)
                                               EXCEPT !.region = "Championship",
                                                      !.game_id = 1] >>)
                  /\ next_unique_id' = next_unique_id + 1
                  /\ created' = Append(created, championship_matchup.unique_game_id)
                  /\ heap' = StoreAdjusted(heap, championship_matchup,
                                 team1_adjusted_elo(heap, championship_matchup, k1),
                                 team2_adjusted_elo(heap, championship_matchup, k2))
                  /\ Logged(championship_matchup, sim, k1, k2)
       ELSE /\ results' = [results EXCEPT ![5] = rows5]
            /\ UNCHANGED <<next_unique_id, created, heap, draws, all_one, sim_log>>
    /\ pc' = "done"
    /\ UNCHANGED <<probe, randomness_factor, teams_data, teams, bracket, winners_by_region,
                   current_round, current_matchups, idx, final_four_winners>>

Next ==
    \/ SetupFirstRound
    \/ StartTournament
    \/ SimulateMatchup
    \/ BuildRegionalRound
    \/ BuildFinalFour
    \/ ResimulateFinalFour
    \/ PlayChampionship

Spec == Init /\ [][Next]_vars

\* ------------------------------------------- one Matchup simulated on its own
\* the seeds, ratings and rounds of the matchups simulated on their own
ProbeSeeds == {1, 2, 3, 4, 5, 8, 9, 16}
ProbeElos == {800, 1000, 1050}
ProbeRounds == 1..6

\* a Team as the caller of Matchup(...) can pass it: built from a rating, or a
\* placeholder made by create_tbd_team
ProbeTeams ==
    {Team(<<"East", s>>, s, e, "East", FALSE) : s \in ProbeSeeds, e \in ProbeElos}
        \cup {create_tbd_team(s, "East") : s \in ProbeSeeds}

\* Matchup(team1, team2, round_num, region, game_id, unique_game_id) on two
\* Team objects, before simulate is called
ProbeInit ==
    /\ pc = "probe"
    /\ randomness_factor \in RandomnessFactors
    /\ teams_data = <<>>
    /\ \E t1, t2 \in ProbeTeams : heap = <<t1, t2>>
    /\ teams = <<>>
    /\ bracket = <<>>
    /\ results = <<>>
    /\ winners_by_region = <<>>
    /\ current_round = 0
    /\ \E r \in ProbeRounds : current_matchups = <<Matchup(1, 2, r, "East", 1, 1)>>
    /\ next_unique_id = 0
    /\ idx = 1
    /\ final_four_winners = <<>>
    /\ created = <<1>>
    /\ draws = 0
    /\ all_one = TRUE
    /\ sim_log = <<>>
    /\ probe = <<>>

\* matchup.simulate(randomness_factor), with the values of its locals recorded
ProbeSimulate ==
    /\ pc = "probe"
    /\ LET m == current_matchups[idx] IN
       \E k1, k2 \in DrawChoices :
         LET sim == simulate(heap, m, randomness_factor, k1, k2) IN
         /\ probe' = [k1 |-> k1, k2 |-> k2, winner |-> sim.winner, draws |-> sim.draws,
                      team1_factor |-> SideFactor(heap[m.team1].seed, heap[m.team2].seed,
                                                  m.round_num),
                      team2_factor |-> SideFactor(heap[m.team2].seed, heap[m.team1].seed,
                                                  m.round_num),
                      team1_adjusted_elo |-> team1_adjusted_elo(heap, m, k1),
                      team2_adjusted_elo |-> team2_adjusted_elo(heap, m, k2)]
         /\ heap' = StoreAdjusted(heap, m, team1_adjusted_elo(heap, m, k1),
                                  team2_adjusted_elo(heap, m, k2))
         /\ Logged(m, sim, k1, k2)
    /\ idx' = idx + 1
    /\ pc' = "probed"
    /\ UNCHANGED <<randomness_factor, teams_data, teams, bracket, results,
                   winners_by_region, current_round, current_matchups,
                   next_unique_id, final_four_winners, created>>

ProbeNext == ProbeSimulate

ProbeSpec == ProbeInit /\ [][ProbeNext]_vars

\* ------------------------------------------------- properties of the input
InputRegions(td) == {td[i].region : i \in DOMAIN td}

\* 4 regions, each with exactly one team per seed 1..16, 64 distinct names
IsCompleteInput(td) ==
    /\ Len(td) = 64
    /\ Cardinality(InputRegions(td)) = 4
    /\ \A r \in InputRegions(td) : \A s \in 1..16 :
          Cardinality({i \in DOMAIN td : td[i].region = r /\ td[i].seed = s}) = 1
    /\ \A i, j \in DOMAIN td : td[i].name = td[j].name => i = j

\* the seeds a region supplies
SuppliedSeeds(td, r) == {td[i].seed : i \in {j \in DOMAIN td : td[j].region = r}}

\* all rows of the result table
AllRows == UNION {Range(results[r]) : r \in DOMAIN results}

RowCount(r) == IF r \in DOMAIN results THEN Len(results[r]) ELSE 0

\* ------------------------------------------------------------- claims

\* C1: for a complete input setup_first_round builds exactly 32 first-round
\* matchups, 8 in each region, whose unique_game_id values are exactly 1..32
\* with none repeated.
C1_FirstRoundComplete ==
    (pc = "ready" /\ IsCompleteInput(teams_data)) =>
        /\ Len(bracket) = 32
        /\ \A r \in InputRegions(teams_data) :
              Cardinality({g \in DOMAIN bracket : bracket[g].region = r}) = 8
        /\ \A g \in DOMAIN bracket : bracket[g].round_num = 1
        /\ {bracket[g].unique_game_id : g \in DOMAIN bracket} = 1..32
        /\ \A g, g2 \in DOMAIN bracket :
              bracket[g].unique_game_id = bracket[g2].unique_game_id => g = g2

C1_Witness ==
    /\ pc = "ready"
    /\ IsCompleteInput(teams_data)
    /\ Len(bracket) = 32
    /\ bracket[32].unique_game_id = 32

\* C2: over a whole run unique_game_id is strictly increasing in the order the
\* matchups are created, no value is given to two matchups, and for a complete
\* bracket the recorded games carry exactly 63 distinct values.
C2_UniqueIdsIncrease ==
    /\ \A i \in 1..(Len(created) - 1) : created[i] < created[i + 1]
    /\ (pc = "done" /\ IsCompleteInput(teams_data)) =>
          Cardinality({row.unique_game_id : row \in AllRows}) = 63

C2_Witness ==
    /\ pc = "done"
    /\ IsCompleteInput(teams_data)
    /\ Len(created) = 63
    /\ results[6][1].unique_game_id = 63

\* C3: for a complete input the result table holds 32, 16, 8, 4, 2 and 1 games
\* for rounds 1 to 6, whatever the random draws were.
C3_RoundSizes ==
    (pc = "done" /\ IsCompleteInput(teams_data)) =>
        /\ DOMAIN results = 1..6
        /\ \A r \in 1..6 : Len(results[r]) = expected_matchups_per_round[r]

C3_Witness ==
    /\ pc = "done"
    /\ IsCompleteInput(teams_data)
    /\ ~all_one
    /\ RowCount(1) = 32
    /\ RowCount(6) = 1

\* exactly one side of matchup m is a placeholder
OneSideTbd(m) == heap[m.team1].is_tbd # heap[m.team2].is_tbd

RealSide(m) == IF heap[m.team1].is_tbd THEN m.team2 ELSE m.team1

\* C4: a round-1 matchup with exactly one placeholder side returns the other
\* side as the winner, on whichever side the placeholder is and whatever the
\* ratings are, and makes no call to the random source.
C4_ByeRule ==
    \A i \in DOMAIN sim_log :
        (sim_log[i].matchup.round_num = 1 /\ OneSideTbd(sim_log[i].matchup)) =>
            /\ sim_log[i].winner = RealSide(sim_log[i].matchup)
            /\ sim_log[i].draws = 0

\* both sides occur, and a real team rated below the placeholder wins its bye
C4_Witness ==
    /\ \E i \in DOMAIN sim_log :
          /\ sim_log[i].matchup.round_num = 1
          /\ heap[sim_log[i].matchup.team1].is_tbd
          /\ ~heap[sim_log[i].matchup.team2].is_tbd
          /\ heap[sim_log[i].matchup.team2].elo < tbd_elo
          /\ sim_log[i].winner = sim_log[i].matchup.team2
    /\ \E i \in DOMAIN sim_log :
          /\ sim_log[i].matchup.round_num = 1
          /\ heap[sim_log[i].matchup.team2].is_tbd
          /\ ~heap[sim_log[i].matchup.team1].is_tbd
          /\ sim_log[i].winner = sim_log[i].matchup.team1

\* ratings strictly decreasing by seed within each region
StrictlyDecreasingBySeed(td) ==
    \A i, j \in DOMAIN td :
        (td[i].region = td[j].region /\ td[i].seed < td[j].seed) => td[i].elo > td[j].elo

\* the record of the seed 1 of the alphabetically-first region
FirstRegionTopSeed(td) ==
    CHOOSE i \in DOMAIN td :
        td[i].seed = 1 /\ td[i].region = SortedRegions(InputRegions(td))[1]

\* that team has the highest rating of all
FirstRegionTopSeedIsBest(td) ==
    \A j \in DOMAIN td : j # FirstRegionTopSeed(td) => td[j].elo < td[FirstRegionTopSeed(td)].elo

\* C5: with 64 teams in 4 regions, ratings strictly decreasing by seed within
\* each region and every uniform draw equal to 1.0, the champion recorded in
\* round 6 is the seed 1 of the alphabetically-first region when that team has
\* the highest rating overall.
C5_BestTeamIsChampion ==
    (/\ pc = "done"
     /\ all_one
     /\ IsCompleteInput(teams_data)
     /\ StrictlyDecreasingBySeed(teams_data)
     /\ FirstRegionTopSeedIsBest(teams_data)) =>
        /\ 6 \in DOMAIN results
        /\ Len(results[6]) = 1
        /\ heap[results[6][1].winner].name = teams_data[FirstRegionTopSeed(teams_data)].name

\* the regions that supply exactly the seeds 1, 2 and 3
ThreeSeedRegions == {r \in InputRegions(teams_data) : SuppliedSeeds(teams_data, r) = {1, 2, 3}}

\* the object ids that play the first round in region r
FirstRoundTeams(r) ==
    UNION {{bracket[g].team1, bracket[g].team2} :
             g \in {x \in DOMAIN bracket : bracket[x].region = r}}

\* C6: a region that supplies only seeds 1, 2 and 3 still has exactly 8
\* first-round matchups, each of its seed slots 4..16 holds a placeholder, and a
\* placeholder whose round-1 opponent is a real team loses that game.
C6_ThreeSeedRegion ==
    pc # "constructed" =>
      \A r \in ThreeSeedRegions :
        /\ Cardinality({g \in DOMAIN bracket : bracket[g].region = r}) = 8
        /\ \A s \in 4..16 :
              \E t \in FirstRoundTeams(r) : heap[t].seed = s /\ heap[t].is_tbd
        /\ \A t \in FirstRoundTeams(r) : heap[t].seed \in 4..16 => heap[t].is_tbd
        /\ \A row \in Range(DictGet(results, 1, <<>>)) :
              (row.region = r /\ OneSideTbd(row)) => row.winner = RealSide(row)

C6_Witness ==
    /\ pc = "done"
    /\ ThreeSeedRegions # {}
    /\ \E row \in Range(results[1]) :
          /\ row.region \in ThreeSeedRegions
          /\ heap[row.team2].is_tbd
          /\ heap[row.team2].seed = 16
          /\ row.winner = row.team1

\* all six rounds are recorded, with two semifinals and one final
Completed ==
    /\ pc = "done"
    /\ DOMAIN results = 1..6
    /\ Len(results[5]) = 2
    /\ Len(results[6]) = 1

\* an upper bound on the steps a run still takes: rounds left, then matchups
\* left in the first pass, then matchups left in the second pass of round 5
Remaining ==
    IF pc \in {"done", "failed"} THEN 0
    ELSE 1 + (6 - current_round) * 100
           + (Len(current_matchups) + 1 - idx)
           + (Len(current_matchups) - Len(final_four_winners))

\* the guard of one of the steps of the loop holds
StepReady ==
    \/ idx <= Len(current_matchups)
    \/ current_round < 4
    \/ current_round = 4
    \/ (current_round = 5 /\ Len(final_four_winners) <= Len(current_matchups))

\* C7: a run of simulate_tournament that starts from at least one first-round
\* matchup built by setup_first_round never raises a failure, always has a next
\* step until it returns, takes a bounded number of steps (each step lowers
\* Remaining) and returns with all six rounds recorded, two games in round 5
\* and one in round 6, also for inputs with missing seeds, fewer than 64 teams
\* or fewer than four regions.
C7_RunCompletes ==
    /\ [](pc # "failed")
    /\ [](pc = "simulate" => StepReady)
    /\ [][pc = "simulate" => Remaining' < Remaining]_vars
    /\ []((pc = "done" /\ bracket # <<>>) => Completed)

C7_Witness ==
    /\ Completed
    /\ Len(teams_data) < 64
    /\ Cardinality(InputRegions(teams_data)) < 4
    /\ \E r \in InputRegions(teams_data) : SuppliedSeeds(teams_data, r) # 1..16

\* C8: in every game of the result table, in every round, the recorded winner is
\* one of the two teams of that game.
C8_WinnerPlayed ==
    \A row \in AllRows : row.winner \in {row.team1, row.team2}

C8_Witness ==
    /\ pc = "done"
    /\ ~all_one
    /\ RowCount(5) = 2
    /\ RowCount(6) = 1
    /\ \E row \in AllRows : row.winner = row.team1
    /\ \E row \in AllRows : row.winner = row.team2

\* C9: no step of the run changes a field of an existing Team: a team keeps the
\* name, seed, rating, region and is_tbd it was constructed with, and the
\* adjusted ratings are never written back.
C9_TeamsImmutable ==
    [][\A id \in DOMAIN heap : id \in DOMAIN heap' /\ heap'[id] = heap[id]]_vars

\* a finished run in which games were decided by draws other than 1.0
C9_Witness ==
    /\ pc = "done"
    /\ draws > 0
    /\ ~all_one
    /\ \A i \in DOMAIN teams_data : heap[i].elo = teams_data[i].elo
    /\ \E i \in DOMAIN sim_log :
          sim_log[i].matchup.round_num > 1 /\ sim_log[i].draws = 2

\* C10: with randomness_factor 0 the team with the strictly higher rating wins
\* every game of the tournament, whatever the random source returns.
C10_PureElo ==
    randomness_factor = 0 =>
        \A row \in AllRows :
            /\ heap[row.team1].elo > heap[row.team2].elo => row.winner = row.team1
            /\ heap[row.team2].elo > heap[row.team1].elo => row.winner = row.team2

\* the object ids that play in round r of the result table
Participants(r) ==
    UNION {{row.team1, row.team2} : row \in Range(DictGet(results, r, <<>>))}

\* the object ids recorded as winners of round r
RecordedWinners(r) == {row.winner : row \in Range(DictGet(results, r, <<>>))}

\* C11: when the teams of the input lie in exactly four regions, whatever their
\* names, the round-4 winner of every region plays in one of the two round-5
\* semifinals.
C11_ChampionsReachFinalFour ==
    (pc = "done" /\ Cardinality(InputRegions(teams_data)) = 4) =>
        \A row \in Range(DictGet(results, 4, <<>>)) : row.winner \in Participants(5)

\* C12: the rating of every placeholder team is strictly lower than the rating
\* of every real team of the input.
C12_PlaceholderRatedLowest ==
    \A i, j \in DOMAIN heap :
        (heap[i].is_tbd /\ ~heap[j].is_tbd) => heap[i].elo < heap[j].elo

\* the calls of simulate made on matchups of round r, as result rows, in call order
RowsSimulated(r) ==
    LET calls == SelectSeq(sim_log, LAMBDA e : e.matchup.round_num = r)
    IN  [i \in 1..Len(calls) |->
            [team1 |-> calls[i].matchup.team1, team2 |-> calls[i].matchup.team2,
             winner |-> calls[i].winner, region |-> calls[i].matchup.region,
             game_id |-> calls[i].matchup.game_id,
             unique_game_id |-> calls[i].matchup.unique_game_id]]

\* the last n entries of a sequence
LastN(seq, n) == SubSeq(seq, Len(seq) - n + 1, Len(seq))

\* C13: the result table lists the games of each round in the order in which
\* the matchups of that round were simulated, and the team1, team2, region,
\* game_id and unique_game_id of an entry are those of the matchup whose
\* simulation produced the entry's winner (for round 5, whose matchups are
\* simulated twice, the entries are those of the second pass once it is stored).
C13_RowsFollowSimulation ==
    \A r \in DOMAIN results :
        /\ Len(results[r]) <= Len(RowsSimulated(r))
        /\ IF r = 5
           THEN results[5] = IF pc = "done" THEN LastN(RowsSimulated(5), Len(results[5]))
                             ELSE SubSeq(RowsSimulated(5), 1, Len(results[5]))
           ELSE results[r] = RowsSimulated(r)

C13_Witness ==
    /\ pc = "done"
    /\ ~all_one
    /\ Len(RowsSimulated(5)) = 4
    /\ RowsSimulated(5)[1].winner # RowsSimulated(5)[3].winner
    /\ results[5][1].winner = RowsSimulated(5)[3].winner
    /\ RowCount(1) = 32

\* the matchups of the round in play that belong to region r
MatchupsOf(r) == SelectSeq(current_matchups, LAMBDA m : m.region = r)

\* C14: when the matchups of rounds 2, 3 and 4 are built, game_id restarts at 1
\* for each region: the first matchup of every region has game_id 1 and the
\* game_ids of a region with k matchups are 1..k.
C14_GameIdPerRegion ==
    (pc = "simulate" /\ current_round \in 2..4) =>
        \A r \in {current_matchups[i].region : i \in DOMAIN current_matchups} :
            /\ MatchupsOf(r)[1].game_id = 1
            /\ {MatchupsOf(r)[i].game_id : i \in DOMAIN MatchupsOf(r)} = 1..Len(MatchupsOf(r))

\* the rows of round n in region r, in game_id order
RegionRows(n, r) ==
    LET rows == SelectSeq(DictGet(results, n, <<>>), LAMBDA row : row.region = r)
        rank(i) == Cardinality({j \in DOMAIN rows : rows[j].game_id <= rows[i].game_id})
    IN  [p \in DOMAIN rows |-> rows[CHOOSE i \in DOMAIN rows : rank(i) = p]]

\* the regions that have rows in round n
RegionsOfRound(n) == {row.region : row \in Range(DictGet(results, n, <<>>))}

\* the seeds of the two teams of a row
RowSeeds(row) == {heap[row.team1].seed, heap[row.team2].seed}

\* C15: bracket adjacency holds in rounds 1 to 3: within a region the k-th
\* matchup of round n+1 has as team1 the winner of the (2k-1)-th game of round n
\* and as team2 the winner of the (2k)-th game, games taken in game_id order; in
\* particular the winner of the 1-v-16 game meets the winner of the 8-v-9 game
\* in round 2.
C15_BracketAdjacency ==
    /\ \A n \in 1..3 : \A r \in RegionsOfRound(n + 1) :
          \A k \in DOMAIN RegionRows(n + 1, r) :
              /\ 2 * k <= Len(RegionRows(n, r))
              /\ RegionRows(n + 1, r)[k].team1 = RegionRows(n, r)[2 * k - 1].winner
              /\ RegionRows(n + 1, r)[k].team2 = RegionRows(n, r)[2 * k].winner
    /\ \A r \in RegionsOfRound(2) :
          /\ RowSeeds(RegionRows(1, r)[1]) = {1, 16}
          /\ RowSeeds(RegionRows(1, r)[2]) = {8, 9}
          /\ RegionRows(2, r)[1].team1 = RegionRows(1, r)[1].winner
          /\ RegionRows(2, r)[1].team2 = RegionRows(1, r)[2].winner

\* a finished run in which a seed 9 won its 8-v-9 game and met the seed 1
C15_Witness ==
    /\ pc = "done"
    /\ \E r \in RegionsOfRound(2) :
          /\ ~heap[RegionRows(2, r)[1].team2].is_tbd
          /\ heap[RegionRows(2, r)[1].team1].seed = 1
          /\ heap[RegionRows(2, r)[1].team2].seed = 9
          /\ Len(RegionRows(4, r)) = 1
          /\ RegionRows(4, r)[1].team1 = RegionRows(3, r)[1].winner

\* the winner of round 4 in region r
ChampionOf(r) == RegionRows(4, r)[1].winner

\* C16: when the four canonical regions are all present, semifinal 1 (game_id 1)
\* is the East champion as team1 against the West champion as team2, semifinal 2
\* (game_id 2) is the South champion against the Midwest champion, and semifinal
\* 1 has the smaller of two consecutive unique_game_id values.
C16_FinalFourPairing ==
    (/\ 5 \in DOMAIN results
     /\ Len(results[5]) = 2
     /\ {"East", "West", "South", "Midwest"} \subseteq InputRegions(teams_data)) =>
        /\ results[5][1].game_id = 1
        /\ results[5][1].team1 = ChampionOf("East")
        /\ results[5][1].team2 = ChampionOf("West")
        /\ results[5][2].game_id = 2
        /\ results[5][2].team1 = ChampionOf("South")
        /\ results[5][2].team2 = ChampionOf("Midwest")
        /\ results[5][2].unique_game_id = results[5][1].unique_game_id + 1

C16_Witness ==
    /\ pc = "done"
    /\ InputRegions(teams_data) = {"East", "West", "South", "Midwest"}
    /\ heap[results[5][1].team1].region = "East"
    /\ heap[results[5][1].team2].region = "West"
    /\ heap[results[5][2].team1].region = "South"
    /\ heap[results[5][2].team2].region = "Midwest"
    /\ results[5][1].unique_game_id = 61

\* the last call of simulate
LastCall == sim_log[Len(sim_log)]

\* C17: the championship matchup is built inside the round-5 step with team1 the
\* recorded winner of semifinal 1 and team2 the recorded winner of semifinal 2,
\* it gets the unique_game_id that follows the semifinals, its result is stored
\* under round 6 in that same step, and no game is simulated afterwards.
C17_ChampionshipInRoundFive ==
    /\ [](6 \in DOMAIN results =>
            /\ pc = "done"
            /\ current_round = 5
            /\ Len(results[6]) = 1
            /\ results[6][1].team1 = results[5][1].winner
            /\ results[6][1].team2 = results[5][2].winner
            /\ results[6][1].unique_game_id = results[5][2].unique_game_id + 1
            /\ results[6][1].unique_game_id = created[Len(created)]
            /\ LastCall.matchup.round_num = 6
            /\ LastCall.matchup.unique_game_id = results[6][1].unique_game_id
            /\ LastCall.winner = results[6][1].winner)
    /\ [][(6 \notin DOMAIN results /\ 6 \in DOMAIN results') =>
            /\ current_round = 5 /\ current_round' = 5
            /\ Len(created') = Len(created) + 1
            /\ Len(sim_log') = Len(sim_log) + 1
            /\ results'[5] = FinalFourRows(current_matchups, final_four_winners)]_vars
    /\ [][pc = "done" => sim_log' = sim_log]_vars

\* a finished run whose semifinal winners differ between the two passes
C17_Witness ==
    /\ pc = "done"
    /\ 6 \in DOMAIN results
    /\ RowsSimulated(5)[1].winner # results[5][1].winner
    /\ results[6][1].team1 = results[5][1].winner
    /\ results[6][1].team1 # results[6][1].team2
    /\ results[6][1].unique_game_id = 63

\* the round of the last simulated game, 0 before the first
PlayedRound == IF sim_log = <<>> THEN 0 ELSE LastCall.matchup.round_num

\* a game of round n has been simulated
RoundStarted(n) == \E i \in DOMAIN sim_log : sim_log[i].matchup.round_num = n

\* the round moves forward one step at a time and never back
RoundsAdvance ==
    /\ [](current_round <= 6 /\ PlayedRound <= 6)
    /\ [][/\ current_round' \in {current_round, current_round + 1}
          /\ PlayedRound' \in {PlayedRound, PlayedRound + 1}]_vars

\* once a game of round n+1 is simulated the rows of round n are all there and
\* never change again
RoundsSettle ==
    /\ [](\A n \in 1..5 : RoundStarted(n + 1) =>
            /\ n \in DOMAIN results
            /\ {row.unique_game_id : row \in Range(results[n])} =
                   {sim_log[i].matchup.unique_game_id :
                        i \in {j \in DOMAIN sim_log : sim_log[j].matchup.round_num = n}})
    /\ [][\A n \in 1..5 : RoundStarted(n + 1) => results'[n] = results[n]]_vars

\* the placeholder champions made at round 4 for standard regions without one
BackfilledChampions ==
    {t \in DOMAIN heap : heap[t].is_tbd /\ t > Len(teams_data) /\ t \notin Participants(1)}

\* C18 as stated: the round moves forward one step at a time through 1..6 and
\* never decreases, the rows of round n are complete and never change again
\* before a game of round n+1 is simulated, and the matchups of round n+1 are
\* made only of winners of round n.
C18_OnlyWinnersAdvance ==
    /\ RoundsAdvance
    /\ RoundsSettle
    /\ [](\A n \in 1..5 : Participants(n + 1) \subseteq RecordedWinners(n))

\* C18 as amended: as above, but the matchups of round 5 are made of winners of
\* round 4 and of the placeholder champions backfilled at round 4.
C18_WinnersOrBackfillAdvance ==
    /\ RoundsAdvance
    /\ RoundsSettle
    /\ [](\A n \in 1..5 :
            Participants(n + 1) \subseteq
                RecordedWinners(n) \cup (IF n = 4 THEN BackfilledChampions ELSE {}))

\* a finished run whose Final Four holds a backfilled placeholder and a winner
C18_Witness ==
    /\ pc = "done"
    /\ PlayedRound = 6
    /\ Participants(5) \cap BackfilledChampions # {}
    /\ Participants(5) \cap RecordedWinners(4) # {}
    /\ Participants(6) \subseteq RecordedWinners(5)

\* C19: every row of rounds 1 to 4 carries the region its two teams share, every
\* row of round 5 carries "Final Four" and the row of round 6 "Championship".
C19_RegionLabels ==
    \A r \in DOMAIN results : \A row \in Range(results[r]) :
        /\ r <= 4 => /\ row.region = heap[row.team1].region
                     /\ row.region = heap[row.team2].region
        /\ r = 5 => row.region = "Final Four"
        /\ r = 6 => row.region = "Championship"

C19_Witness ==
    /\ pc = "done"
    /\ RowCount(5) = 2
    /\ RowCount(6) = 1
    /\ \E row \in Range(results[1]) : heap[row.team1].is_tbd /\ row.region = "South"
    /\ \E row \in Range(results[4]) : row.region = "South"

\* the matchup simulated on its own, and whether the bye rule decides it
ProbeMatchup == current_matchups[1]
ProbeBye == ProbeMatchup.round_num = 1 /\ (heap[1].is_tbd \/ heap[2].is_tbd)

\* C20: outside the bye rule team1 wins exactly when its adjusted rating is
\* strictly greater than team2's; on a tie of the adjusted ratings team2 wins.
C20_StrictComparison ==
    (pc = "probed" /\ ~ProbeBye) =>
        LET a1 == AdjustedElo(heap[1].elo,
                              SideFactor(heap[1].seed, heap[2].seed, ProbeMatchup.round_num),
                              probe.k1, ChampionshipBoost(heap[1].seed, ProbeMatchup.round_num))
            a2 == AdjustedElo(heap[2].elo,
                              SideFactor(heap[2].seed, heap[1].seed, ProbeMatchup.round_num),
                              probe.k2, ChampionshipBoost(heap[2].seed, ProbeMatchup.round_num))
        IN  /\ probe.winner \in {ProbeMatchup.team1, ProbeMatchup.team2}
            /\ (probe.winner = ProbeMatchup.team1) <=> (a1 > a2)
            /\ (a1 = a2) => probe.winner = ProbeMatchup.team2
            /\ a1 = probe.team1_adjusted_elo
            /\ a2 = probe.team2_adjusted_elo

\* a tie of the adjusted ratings between teams of different ratings, won by team2
C20_Witness ==
    /\ pc = "probed"
    /\ ~ProbeBye
    /\ heap[1].elo # heap[2].elo
    /\ probe.team1_adjusted_elo = probe.team2_adjusted_elo
    /\ probe.winner = ProbeMatchup.team2

\* the magnitude the rules of rounds 2 to 6 give to a seed, in hundredths
LaterRoundMagnitude(seed, round) ==
    IF seed = 1 THEN Max(5, 20 - (round - 1) * 4)
    ELSE IF seed = 2 THEN Max(8, 20 - (round - 1) * 3)
    ELSE IF seed \in {3, 4} THEN Max(12, 20 - (round - 1) * 2)
    ELSE IF seed \in 5..8 THEN Max(15, 20 - (round - 1) * 1)
    ELSE Min(40, 20 + (round - 1) * 5)

\* the magnitude of round 2 to 6 used for a seed is the one of the rules, it does
\* not grow with the round for seeds 1 to 8, does not shrink for seeds 9 to 16
\* and lies in 0.05..0.40
MagnitudeAsRuled(factor, seed, round) ==
    /\ factor = LaterRoundMagnitude(seed, round)
    /\ factor \in 5..40
    /\ \A later \in (round + 1)..6 :
         /\ seed <= 8 => LaterRoundMagnitude(seed, later) <= factor
         /\ seed >= 9 => LaterRoundMagnitude(seed, later) >= factor

\* C21: in rounds 2 to 6 the randomness magnitude of a team is the function of
\* its own seed and the round given by the five rules (seed 1, seed 2, seeds 3-4,
\* seeds 5-8, seeds 9-16); it is non-increasing in the round for seeds 1-8,
\* non-decreasing for seeds 9-16 and always within [0.05, 0.40].
C21_LaterRoundMagnitude ==
    (pc = "probed" /\ ProbeMatchup.round_num \in 2..6) =>
        /\ MagnitudeAsRuled(probe.team1_factor, heap[1].seed, ProbeMatchup.round_num)
        /\ MagnitudeAsRuled(probe.team2_factor, heap[2].seed, ProbeMatchup.round_num)
        /\ probe.team1_adjusted_elo =
             heap[1].elo * (100 * DrawSteps
                 + LaterRoundMagnitude(heap[1].seed, ProbeMatchup.round_num) * probe.k1)
               * ChampionshipBoost(heap[1].seed, ProbeMatchup.round_num)
        /\ probe.team2_adjusted_elo =
             heap[2].elo * (100 * DrawSteps
                 + LaterRoundMagnitude(heap[2].seed, ProbeMatchup.round_num) * probe.k2)
               * ChampionshipBoost(heap[2].seed, ProbeMatchup.round_num)

\* a round-6 game of a seed 16 (magnitude at its limit 0.40) against a seed 1
\* (magnitude at its limit 0.05), both draws away from 1.0
C21_Witness ==
    /\ pc = "probed"
    /\ ProbeMatchup.round_num = 6
    /\ heap[1].seed = 16 /\ probe.team1_factor = 40
    /\ heap[2].seed = 1 /\ probe.team2_factor = 5
    /\ probe.k1 # 0 /\ probe.k2 # 0

\* the adjusted rating of a side before the championship multiplier, as a
\* numerator over 100*DrawSteps
Unboosted(elo, factor, k) == elo * (100 * DrawSteps + factor * k)

\* C22: the 1.05 multiplier is applied to a team's adjusted rating exactly when
\* the round is 6 and the team's seed is 1: to both sides when both are seed 1,
\* to no team in rounds 1 to 5 and to no team with another seed.
C22_ChampionshipBonus ==
    (pc = "probed" /\ probe.draws = 2) =>
        LET r  == ProbeMatchup.round_num
            u1 == Unboosted(heap[1].elo, probe.team1_factor, probe.k1)
            u2 == Unboosted(heap[2].elo, probe.team2_factor, probe.k2)
        IN  /\ probe.team1_adjusted_elo =
                  IF r = 6 /\ heap[1].seed = 1 THEN u1 * 21 ELSE u1 * 20
            /\ probe.team2_adjusted_elo =
                  IF r = 6 /\ heap[2].seed = 1 THEN u2 * 21 ELSE u2 * 20

\* a final between two seeds 1 that the multiplier leaves undecided by itself:
\* both sides have it, and team1 wins on the ratings
C22_Witness ==
    /\ pc = "probed"
    /\ ProbeMatchup.round_num = 6
    /\ heap[1].seed = 1 /\ heap[2].seed = 1
    /\ heap[1].elo = 1050 /\ heap[2].elo = 1000
    /\ probe.k1 = 0 /\ probe.k2 = 0
    /\ probe.team1_adjusted_elo = 1050 * 100 * DrawSteps * 21
    /\ probe.team2_adjusted_elo = 1000 * 100 * DrawSteps * 21
    /\ probe.winner = ProbeMatchup.team1

\* the lowest adjusted rating side a can draw is strictly greater than the
\* highest side b can draw, the 1.05 of b included (a, b: object ids of the probe)
FarApart(a, b) ==
    LET r  == ProbeMatchup.round_num
        fa == SideFactor(heap[a].seed, heap[b].seed, r)
        fb == SideFactor(heap[b].seed, heap[a].seed, r)
    IN  heap[a].elo * (100 - fa) * 20 >
            heap[b].elo * (100 + fb) * (IF r = 6 /\ heap[b].seed = 1 THEN 21 ELSE 20)

\* C27 as stated: whenever team A's rating times (1 - its magnitude) is strictly
\* greater than team B's rating times (1 + its magnitude), times 1.05 if B gets
\* the championship bonus, team A wins for every pair of random draws.
C27_FarApartWins ==
    pc = "probed" =>
        /\ FarApart(1, 2) => probe.winner = 1
        /\ FarApart(2, 1) => probe.winner = 2

\* C27 as amended: the same, in a game that is not decided by the round-1 bye
\* rule (a placeholder in round 1 loses whatever the ratings are).
C27_FarApartWinsOutsideBye ==
    (pc = "probed" /\ ~ProbeBye) =>
        /\ FarApart(1, 2) => probe.winner = 1
        /\ FarApart(2, 1) => probe.winner = 2

\* team2 is far ahead in a final against a seed 1 that has the bonus and the
\* best draw while team2 has the worst, and team2 wins
C27_Witness ==
    /\ pc = "probed"
    /\ ProbeMatchup.round_num = 6
    /\ heap[1].seed = 1 /\ heap[2].seed # 1
    /\ FarApart(2, 1)
    /\ probe.k1 = DrawSteps /\ probe.k2 = -DrawSteps
    /\ probe.winner = 2

\* the number of games recorded in the result table
TotalRows ==
    RowCount(1) + RowCount(2) + RowCount(3) + RowCount(4) + RowCount(5) + RowCount(6)

\* the recorded games that the bye rule does not decide
DrawnRows(r) ==
    {row \in Range(DictGet(results, r, <<>>)) :
        ~(r = 1 /\ (heap[row.team1].is_tbd \/ heap[row.team2].is_tbd))}

\* C23: every game of a run is simulated exactly once: at the end the number of
\* simulate calls equals the number of recorded games, the random source was
\* called twice for each game outside the bye rule, and a complete 64-team
\* bracket has 63 of each.
C23_EachGameSimulatedOnce ==
    (pc = "done" /\ bracket # <<>>) =>
        /\ Len(sim_log) = TotalRows
        /\ draws = 2 * (Cardinality(DrawnRows(1)) + RowCount(2) + RowCount(3)
                          + RowCount(4) + RowCount(5) + RowCount(6))
        /\ IsCompleteInput(teams_data) => (TotalRows = 63 /\ Len(sim_log) = 63)

\* the rows of round n won by team t, and the teams recorded as losers of round n
RowsWonBy(n, t) == {row \in Range(DictGet(results, n, <<>>)) : row.winner = t}
Losers(n) ==
    {IF row.winner = row.team1 THEN row.team2 ELSE row.team1 :
        row \in Range(DictGet(results, n, <<>>))}

\* C24: single elimination over the whole result table: every participant of a
\* game of round n+1 (n = 1..5) is the recorded winner of exactly one game of
\* round n or a placeholder champion backfilled at round 4, and no team recorded
\* as the loser of a game plays in any later round.
C24_SingleElimination ==
    /\ \A n \in 1..5 : \A t \in Participants(n + 1) :
          \/ Cardinality(RowsWonBy(n, t)) = 1
          \/ n = 4 /\ t \in BackfilledChampions
    /\ \A n \in 1..5 : \A later \in (n + 1)..6 : Losers(n) \cap Participants(later) = {}

\* a finished run where the seed 9 beat the seed 8 and went on to meet the seed 1,
\* and where the two semifinals were won by the sides that lost their first pass
C24_Witness ==
    /\ pc = "done"
    /\ RowCount(6) = 1
    /\ \E row \in Range(results[2]) : RowSeeds(row) = {1, 9}
    /\ RowsSimulated(5)[1].winner # results[5][1].winner
    /\ RowsSimulated(5)[2].winner # results[5][2].winner

\* the number of winners a region has after round r
WinnersAfter(r) == CASE r = 1 -> 8 [] r = 2 -> 4 [] r = 3 -> 2 [] OTHER -> 1

\* the regions that have first-round matchups
BracketRegions == {bracket[g].region : g \in DOMAIN bracket}

\* the first pass over the matchups of the current round is over
RoundPlayed == pc = "simulate" /\ idx > Len(current_matchups)

\* the teams of the matchups of the current round
CurrentParticipants ==
    UNION {{current_matchups[i].team1, current_matchups[i].team2} :
             i \in DOMAIN current_matchups}

\* C25: in every run started from setup_first_round each region has exactly 8,
\* 4, 2 and 1 winners after rounds 1, 2, 3 and 4; the pairing of rounds 1 to 3
\* never meets an odd number of winners and drops no winner, and the run never
\* comes to a pairing step (the championship included) with fewer than 2 winners.
C25_RegionWinnerCounts ==
    /\ (RoundPlayed /\ current_round \in 1..4) =>
          \A r \in BracketRegions :
             /\ r \in DOMAIN winners_by_region
             /\ Len(winners_by_region[r]) = WinnersAfter(current_round)
    /\ (pc = "simulate" /\ current_round \in 2..4) =>
          /\ CurrentParticipants = RecordedWinners(current_round - 1)
          /\ 2 * Len(current_matchups) = RowCount(current_round - 1)
    /\ (pc = "done" /\ bracket # <<>>) =>
          /\ Len(final_four_winners) = 2
          /\ RowCount(6) = 1
    /\ pc # "failed"

\* round 4 is played in a run with a region of three teams and four regions
C25_Witness ==
    /\ RoundPlayed
    /\ current_round = 4
    /\ Cardinality(InputRegions(teams_data)) = 4
    /\ ThreeSeedRegions # {}
    /\ \A r \in InputRegions(teams_data) : Len(winners_by_region[r]) = 1

\* C26: when the input holds at least one real team, the winner recorded for
\* the round-6 championship game is not a placeholder.
C26_ChampionIsReal ==
    (6 \in DOMAIN results /\ teams_data # <<>>) =>
        \A row \in Range(results[6]) : ~heap[row.winner].is_tbd

\* record i is the last of the input with its name
Kept(td, i) == \A j \in (i + 1)..Len(td) : td[j].name # td[i].name

\* the place of the first record that has the name of record i
FirstSeen(td, i) ==
    CHOOSE j \in 1..i : td[j].name = td[i].name /\ \A l \in 1..(j - 1) : td[l].name # td[i].name

\* records i and j name the same (region, seed) slot
SameSlot(td, i, j) == td[i].region = td[j].region /\ td[i].seed = td[j].seed

\* the Team objects that play the first round, and those in the slot (r, s)
BracketTeams == UNION {{bracket[g].team1, bracket[g].team2} : g \in DOMAIN bracket}
SlotHolders(r, s) == {t \in BracketTeams : heap[t].region = r /\ heap[t].seed = s}

\* only the last record of a name is in the registry and can play
LastOfNameKept ==
    /\ Range(teams) = {i \in DOMAIN teams_data : Kept(teams_data, i)}
    /\ \A i \in DOMAIN teams_data : ~Kept(teams_data, i) => i \notin BracketTeams

\* the slot of record i is held by a placeholder or by a kept record
SlotRefilled(i) ==
    \E t \in SlotHolders(teams_data[i].region, teams_data[i].seed) :
        heap[t].is_tbd \/ (t \in DOMAIN teams_data /\ Kept(teams_data, t))

\* C28 as stated: of two records with one name only the last is kept in the
\* registry and enters the bracket; the slot of the earlier record is filled by
\* a placeholder unless another team occupies it; of two records with one
\* (region, seed) slot only the later one plays.
C28_LastRecordWins ==
    pc = "ready" =>
        /\ LastOfNameKept
        /\ \A i \in DOMAIN teams_data : ~Kept(teams_data, i) => SlotRefilled(i)
        /\ \A i, j \in DOMAIN teams_data :
              (i < j /\ SameSlot(teams_data, i, j)) => i \notin BracketTeams

\* C28 as amended: the slot of the earlier record is filled by a placeholder
\* unless another team occupies it or no kept record names its region (the
\* region then has no matchup); of two kept records with one slot only the one
\* whose name came first later in the input plays.
C28_LastRecordWinsByFirstMention ==
    pc = "ready" =>
        /\ LastOfNameKept
        /\ \A i \in DOMAIN teams_data : ~Kept(teams_data, i) =>
              IF \E j \in DOMAIN teams_data :
                     Kept(teams_data, j) /\ teams_data[j].region = teams_data[i].region
              THEN SlotRefilled(i)
              ELSE teams_data[i].region \notin BracketRegions
        /\ \A i, j \in DOMAIN teams_data :
              (/\ Kept(teams_data, i) /\ Kept(teams_data, j) /\ SameSlot(teams_data, i, j)
               /\ FirstSeen(teams_data, i) < FirstSeen(teams_data, j)) => i \notin BracketTeams
        /\ \A j \in DOMAIN teams_data :
              (/\ Kept(teams_data, j)
               /\ \A i \in DOMAIN teams_data :
                     (Kept(teams_data, i) /\ SameSlot(teams_data, i, j)) =>
                         FirstSeen(teams_data, i) <= FirstSeen(teams_data, j))
                 => j \in BracketTeams

\* the earlier record of a name has left its slot to a placeholder and the
\* later record of that name plays in another slot
C28_Witness ==
    /\ pc = "ready"
    /\ \E i, j \in DOMAIN teams_data :
          /\ i < j
          /\ teams_data[i].name = teams_data[j].name
          /\ ~SameSlot(teams_data, i, j)
          /\ j \in BracketTeams
          /\ \A t \in SlotHolders(teams_data[i].region, teams_data[i].seed) : heap[t].is_tbd
          /\ SlotHolders(teams_data[i].region, teams_data[i].seed) # {}

\* C29: simulate_tournament called when no first-round matchup exists (no
\* setup_first_round, or setup_first_round with an empty list) simulates no
\* game, raises no failure and returns a result table without an entry for any
\* round, round 6 included.
C29_EmptyBracketEmptyTable ==
    /\ []((bracket = <<>> /\ pc \notin {"constructed", "ready"}) =>
            /\ pc = "done"
            /\ DOMAIN results = {}
            /\ sim_log = <<>>
            /\ draws = 0
            /\ created = <<>>)
    /\ [][(bracket = <<>> /\ bracket' = <<>> /\ pc' \notin {pc, "ready"}) =>
            (pc' = "done" /\ results' = <<>> /\ sim_log' = <<>>)]_vars

\* simulate_tournament has returned for an instance without first-round matchups
C29_Witness ==
    /\ pc = "done"
    /\ bracket = <<>>
    /\ teams_data = <<>>
    /\ results = <<>>
    /\ current_round = 1

\* both sides of the matchup of a sim_log entry are placeholders
BothTbd(e) == heap[e.matchup.team1].is_tbd /\ heap[e.matchup.team2].is_tbd

\* C30: a round-1 matchup of two placeholders returns team2 without a call of
\* the random source; that placeholder is in a round-2 matchup, and the games
\* a placeholder plays from round 2 on are decided like any other, with two
\* random draws.
C30_PlaceholderAdvances ==
    /\ \A i \in DOMAIN sim_log :
          LET e == sim_log[i] IN
          /\ (e.matchup.round_num = 1 /\ BothTbd(e)) =>
                (e.winner = e.matchup.team2 /\ e.draws = 0)
          /\ (/\ e.matchup.round_num >= 2
              /\ (heap[e.matchup.team1].is_tbd \/ heap[e.matchup.team2].is_tbd)) =>
                e.draws = 2
    /\ (pc = "simulate" /\ current_round = 2) =>
          \A row \in Range(results[1]) :
             (heap[row.team1].is_tbd /\ heap[row.team2].is_tbd) =>
                 (row.winner = row.team2 /\ row.winner \in CurrentParticipants)

\* a placeholder that won a round-1 game against a placeholder has played a
\* round-2 game against another one
C30_Witness ==
    \E i, j \in DOMAIN sim_log :
        /\ sim_log[i].matchup.round_num = 1 /\ BothTbd(sim_log[i])
        /\ sim_log[j].matchup.round_num = 2 /\ BothTbd(sim_log[j])
        /\ sim_log[i].winner \in {sim_log[j].matchup.team1, sim_log[j].matchup.team2}
        /\ sim_log[j].draws = 2
====
